---- MODULE Spec2Model ----
\* Model of src/server.js: the in-memory job table (changelogJobs), the POST
\* /api/changelogs and GET /api/changelogs/status/:id handlers, the background
\* pipeline generateChangelogAsync -> fetchCommitsInDateRange ->
\* generateChangelogFromCommits -> storeChangelog, and the patch preview that
\* generateChangelogFromCommits renders into the prompt.
\*
\* Execution model (Node.js): one event loop.  A handler or a continuation runs
\* to its next await without interleaving; a promise that is already settled
\* resumes its awaiter in a microtask, before any other request or I/O
\* completion is handled.  Each I/O completion is one action that runs the
\* continuation up to the next await.
EXTENDS Integers, Sequences, FiniteSets, TLC

\* ---------------------------------------------------------------- bounds
MaxJobs == 2        \* POST /api/changelogs requests accepted in one run
MaxCommits == 2     \* commits in the repository's history
MaxPatchLen == 6    \* characters of a file patch
MaxClock == 2       \* milliseconds the wall clock advances in one run

VARIABLES
    changelogJobs,  \* the Map of line 46: job id -> job entry
    tasks,          \* the calls of generateChangelogAsync, in dispatch order
    store,          \* the 'changelogs' collection, in insertion order
    clock,          \* the last reading of the wall clock
    history,        \* the commits of the repository (Commit Source)
    response,       \* the HTTP response sent in the last event-loop turn
    observed,       \* job id -> the first terminal record a status poll returned
    file,           \* a file of a commit's detail (input of the preview)
    patchPreview,   \* the preview rendered from file.patch
    request,        \* the GET /api/commits request being served
    reader          \* a client reading GET /api/changelogs page after page

vars == <<changelogJobs, tasks, store, clock, history, response, observed,
          file, patchPreview, request, reader>>

\* ------------------------------------------------------- JavaScript values
Undefined == "undefined"
Null == "null"

\* version || null, title || null
Truthy(v) == v \notin {Undefined, Null, ""}

OrNull(v) == IF Truthy(v) THEN v ELSE Null

\* ----------------------------------------------------------------- dates
\* new Date(s).getTime(): the time value of a date string, NaN if unparseable.
NaN == -1

DateParse(s) ==
    CASE s \in {"2024-01-01", "2024-01-01T00:00:00.000Z", "2024-01-01T00:00:00Z"} -> 1
      [] s \in {"2024-01-05", "2024-01-05T00:00:00.000Z", "2024-01-05T00:00:00Z"} -> 5
      [] OTHER -> NaN

\* Date.prototype.toISOString: throws a RangeError on an invalid date.
ToISOStringThrows(ms) == ms = NaN

ToISOString(ms) ==
    CASE ms = 1 -> "2024-01-01T00:00:00.000Z"
      [] ms = 5 -> "2024-01-05T00:00:00.000Z"

\* (variant: >= in place of >)
DateGreaterOrEqual(a, b) == a # NaN /\ b # NaN /\ a >= b

\* a > b on Date objects: false when either is an invalid date
DateGreater(a, b) == a # NaN /\ b # NaN /\ a > b

\* the author dates the Commit Source reports
GitDates == {"2024-01-01T00:00:00Z", "2024-01-05T00:00:00Z"}


\* ------------------------------------------------------------- job table
\* (variant: the map is cleared before the key is set)
MapSetCleared(m, k, v) == [x \in {k} |-> v]

\* Map.prototype.set: the map with key k bound to v, other keys as they were
MapSet(m, k, v) == [x \in DOMAIN m \cup {k} |-> IF x = k THEN v ELSE m[x]]

ProcessingJob == [status |-> "processing", completed |-> FALSE]

\* (variant: the caught error's own message is stored)
ErrorJobWithDetail == [status |-> "error", completed |-> TRUE,
                       error |-> "Bad credentials"]

ErrorJob == [status |-> "error", completed |-> TRUE,
             error |-> "Failed to generate changelog"]

\* (variant: version and title change places)
CompletedJobSwapped(changelogId, date, version, title, changes) ==
    [status |-> "completed", completed |-> TRUE,
     changelog |-> [id |-> changelogId, date |-> date, version |-> title,
                    title |-> version, changes |-> changes]]

CompletedJob(changelogId, date, version, title, changes) ==
    [status |-> "completed", completed |-> TRUE,
     changelog |-> [id |-> changelogId, date |-> date, version |-> version,
                    title |-> title, changes |-> changes]]

IsTerminal(job) == job.status \in {"completed", "error"}

\* Date.now().toString()
JobIdOf(t) == ToString(t)

\* --------------------------------------------------------- Commit Source
Sha(k) == "a" \o ToString(k)

\* an element of octokit.repos.listCommits' response.data
ApiCommit(k, date) ==
    [sha |-> Sha(k),
     commit |-> [message |-> "m" \o ToString(k),
                 author |-> [name |-> "dev", date |-> date]]]

\* every history of at most MaxCommits commits, in any order of dates
Histories ==
    UNION {{[k \in 1..n |-> ApiCommit(k, d[k])] : d \in [1..n -> GitDates]}
           : n \in 0..MaxCommits}

\* two repositories: no commit, and two commits (latest first, as
\* listCommits answers) of which a range may hold both, one or none
RecentHistories ==
    {<<>>,
     <<ApiCommit(1, "2024-01-05T00:00:00Z"), ApiCommit(2, "2024-01-01T00:00:00Z")>>}

\* octokit.repos.listCommits({since, until}): the commits of the range
ListCommitsData(since, until) ==
    SelectSeq(history,
              LAMBDA c : /\ DateParse(since) <= DateParse(c.commit.author.date)
                         /\ DateParse(c.commit.author.date) <= DateParse(until))

\* response.data.map(commit => ({sha, message, author, date}))
CommitSummaries(data) ==
    [k \in 1..Len(data) |->
        [sha |-> data[k].sha,
         message |-> data[k].commit.message,
         author |-> data[k].commit.author.name,
         date |-> data[k].commit.author.date]]

\* ------------------------------------------------------------ Summarizer
\* completion.choices[0].message.content: what the model may answer (text
\* that is not JSON, JSON of another shape, a draft)
DraftFeatures ==
    "{\"changes\":[{\"category\":\"Features\",\"items\":[{\"description\":\"Added dark mode\",\"commitLink\":\"https://.../commit/abc\"}]}]}"

DraftEmpty == "{\"changes\":[]}"

DraftTwoSections ==
    "{\"changes\":[{\"category\":\"Bug Fixes\",\"items\":[]},{\"category\":\"Features\",\"items\":[{\"description\":\"Added dark mode\",\"commitLink\":\"https://.../commit/abc\"},{\"description\":\"Faster search\",\"commitLink\":\"https://.../commit/def\"}]}]}"

Completions == {"not json", "{}", DraftFeatures}

\* more drafts, for the runs of a single job
AllCompletions == Completions \cup {DraftEmpty, DraftTwoSections}

JSONParseThrows(content) == content = "not json"

JSONParse(content) ==
    CASE content = "{}" -> [other |-> Null]
      [] content = DraftEmpty -> [changes |-> <<>>]
      [] content = DraftFeatures ->
           [changes |->
              <<[category |-> "Features",
                 items |-> <<[description |-> "Added dark mode",
                              commitLink |-> "https://.../commit/abc"]>>]>>]
      [] content = DraftTwoSections ->
           [changes |->
              <<[category |-> "Bug Fixes", items |-> <<>>],
                [category |-> "Features",
                 items |-> <<[description |-> "Added dark mode",
                              commitLink |-> "https://.../commit/abc"],
                             [description |-> "Faster search",
                              commitLink |-> "https://.../commit/def"]>>]>>]

\* --------------------------------------------------------- storeChangelog
\* commits.reduce((latest, current) => ..., null): 0 stands for null
RECURSIVE ReduceLatest(_, _, _)
ReduceLatest(commits, k, latest) ==
    IF k > Len(commits) THEN latest
    ELSE ReduceLatest(commits, k + 1,
            IF \/ latest = 0
               \/ DateGreater(DateParse(commits[k].date),
                              DateParse(commits[latest].date))
            THEN k ELSE latest)

MostRecentCommit(commits) == ReduceLatest(commits, 1, 0)

\* (variant: the items of a section are written in reverse order)
SectionsItemsReversed(changes) ==
    [k \in 1..Len(changes) |->
        [heading |-> changes[k].category,
         bulletPoints |->
            [j \in 1..Len(changes[k].items) |->
                [bulletPointDetails |->
                    changes[k].items[Len(changes[k].items) + 1 - j].description,
                 linkToRelevantCommit |->
                    changes[k].items[Len(changes[k].items) + 1 - j].commitLink]]]]

\* changelog.changes.map(change => ({heading, bulletPoints}))
Sections(changes) ==
    [k \in 1..Len(changes) |->
        [heading |-> changes[k].category,
         bulletPoints |->
            [j \in 1..Len(changes[k].items) |->
                [bulletPointDetails |-> changes[k].items[j].description,
                 linkToRelevantCommit |-> changes[k].items[j].commitLink]]]]

\* the synchronous part of storeChangelog throws a TypeError
StoreChangelogThrows(changelog, commits) ==
    \/ MostRecentCommit(commits) = 0          \* null.date
    \/ "changes" \notin DOMAIN changelog      \* undefined.map

ChangelogData(changelog, commits, version, title, startDate, endDate) ==
    [timestampOfMostRecentCommit |-> commits[MostRecentCommit(commits)].date,
     version |-> OrNull(version),
     title |-> OrNull(title),
     startDate |-> startDate,
     endDate |-> endDate,
     sections |-> Sections(changelog.changes)]

\* addDoc: the store assigns the document id
DocId(n) == "doc" \o ToString(n)

AddDoc(data, id) == Append(store, [id |-> id, data |-> data])

\* ----------------------------------------------------------- patch preview
\* Strings are sequences of characters.  PatchChars are the characters of the
\* patches tried: a letter, a dot and the line break.
LF == "\n"

PatchChars == {"a", ".", LF}

\* {patch: file.patch}: a file with no patch has patch undefined
NoPatchFile == [hasPatch |-> FALSE, patch |-> <<>>]

Files ==
    {NoPatchFile} \cup
    {[hasPatch |-> TRUE, patch |-> p] :
        p \in UNION {[1..n -> PatchChars] : n \in 0..MaxPatchLen}}

\* String.prototype.split(sep) for a one-character separator
RECURSIVE SplitFrom(_, _, _, _)
SplitFrom(str, sep, k, line) ==
    IF k > Len(str) THEN <<line>>
    ELSE IF str[k] = sep THEN <<line>> \o SplitFrom(str, sep, k + 1, <<>>)
    ELSE SplitFrom(str, sep, k + 1, Append(line, str[k]))

Split(str, sep) == SplitFrom(str, sep, 1, <<>>)

\* Array.prototype.join(sep)
RECURSIVE Join(_, _)
Join(lines, sep) ==
    IF lines = <<>> THEN <<>>
    ELSE IF Len(lines) = 1 THEN lines[1]
    ELSE lines[1] \o <<sep>> \o Join(Tail(lines), sep)

\* Array.prototype.slice(0, n)
SliceFirst(seq, n) == SubSeq(seq, 1, IF Len(seq) < n THEN Len(seq) ELSE n)

\* the number of patch lines shown (line 79)
PreviewLines == 5

\* (variant: >= 5 in place of > 5)
NeedsEllipsisOffByOne(lines) == Len(lines) >= PreviewLines

\* file.patch.split('\n').length > 5
NeedsEllipsis(lines) == Len(lines) > PreviewLines

\* lines 78-81: file.patch ? first lines + ('\n...' if more) : ''
PatchPreview(f) ==
    IF f.hasPatch /\ f.patch # <<>>
    THEN Join(SliceFirst(Split(f.patch, LF), PreviewLines), LF)
         \o (IF NeedsEllipsis(Split(f.patch, LF)) THEN <<LF, ".", ".", ".">>
             ELSE <<>>)
    ELSE <<>>

NotRendered == [done |-> FALSE, text |-> <<>>]

\* ------------------------------------------------- generateChangelogAsync
\* req.body of POST /api/changelogs; no body parser is installed, so req.body
\* may be undefined (parsed = FALSE)
Bodies ==
    {[parsed |-> FALSE],
     [parsed |-> TRUE, startDate |-> "2024-01-01", endDate |-> "2024-01-05",
      version |-> "1.2.0", title |-> "January"],
     [parsed |-> TRUE, startDate |-> "2024-01-05", endDate |-> "2024-01-05",
      version |-> Undefined, title |-> ""],
     [parsed |-> TRUE, startDate |-> "2024-01-05", endDate |-> "2024-01-01",
      version |-> Undefined, title |-> Undefined],
     [parsed |-> TRUE, startDate |-> Undefined, endDate |-> "2024-01-05",
      version |-> Undefined, title |-> Undefined]}

\* a local that holds no value (yet, or any more)
Unset == [unset |-> TRUE]

\* (variant: a call that ends is started again from its first step)
Restarted(task) ==
    [task EXCEPT !.pc = "listCommits", !.commits = <<>>, !.pending = {},
                 !.startDate = "2024-01-01", !.endDate = "2024-01-05",
                 !.changelog = Unset, !.mostRecentCommit = Unset,
                 !.changelogData = Unset]

\* a finished call: its arguments and locals are gone.  getCommit calls still
\* in flight when Promise.all rejected are dropped with them: their results
\* are discarded and change nothing.
Finished(task) ==
    [jobId |-> task.jobId, startDate |-> Null, endDate |-> Null,
     version |-> Null, title |-> Null, pc |-> "done", commits |-> <<>>,
     pending |-> {}, changelog |-> Unset, mostRecentCommit |-> Unset,
     changelogData |-> Unset]

\* (variant: a range whose start is after its end is rejected like an
\* unparseable date)
StartTaskOrdered(jobId, body) ==
    [jobId |-> jobId,
     startDate |-> body.startDate, endDate |-> body.endDate,
     version |-> body.version, title |-> body.title,
     pc |-> IF \/ ToISOStringThrows(DateParse(body.startDate))
               \/ ToISOStringThrows(DateParse(body.endDate))
               \/ DateParse(body.startDate) > DateParse(body.endDate)
            THEN "rejected" ELSE "listCommits",
     commits |-> <<>>, pending |-> {}, changelog |-> Unset,
     mostRecentCommit |-> Unset, changelogData |-> Unset]

\* generateChangelogAsync up to its first await: fetchCommitsInDateRange either
\* throws in new Date(..).toISOString() (the rejection is delivered to the
\* catch of generateChangelogAsync in a microtask) or awaits listCommits
StartTask(jobId, body) ==
    [jobId |-> jobId,
     startDate |-> body.startDate, endDate |-> body.endDate,
     version |-> body.version, title |-> body.title,
     pc |-> IF \/ ToISOStringThrows(DateParse(body.startDate))
               \/ ToISOStringThrows(DateParse(body.endDate))
            THEN "rejected" ELSE "listCommits",
     commits |-> <<>>, pending |-> {}, changelog |-> Unset,
     mostRecentCommit |-> Unset, changelogData |-> Unset]

\* (variant: the entry is not inserted when the job is dispatched)
InsertJobMissing(jobId) == changelogJobs

\* changelogJobs.set(jobId, {status: 'processing', completed: false})
InsertJob(jobId) == MapSet(changelogJobs, jobId, ProcessingJob)

\* a settled promise is waiting to resume its awaiter
MicrotaskPending == \E i \in DOMAIN tasks : tasks[i].pc = "rejected"

\* (variant: the rejection is not caught; the entry is left as it is)
CatchBlockSilent(i) ==
    /\ tasks' = [tasks EXCEPT ![i] = Finished(@)]
    /\ UNCHANGED <<changelogJobs, store, clock>>

\* the catch block of generateChangelogAsync (lines 207-214)
CatchBlock(i) ==
    /\ changelogJobs' = MapSet(changelogJobs, tasks[i].jobId, ErrorJob)
    /\ tasks' = [tasks EXCEPT ![i] = Finished(@)]
    /\ UNCHANGED <<store, clock>>

\* a turn of the event loop that answers no request
NoResponse == [op |-> "none"]

\* no GET /api/commits request is being served
NoRequest == [op |-> "none"]

\* no client is reading the stored changelogs
NoReader == [reading |-> FALSE]

InitWith(histories) ==
    /\ changelogJobs = <<>>
    /\ tasks = <<>>
    /\ store = <<>>
    /\ clock = 0
    /\ history \in histories
    /\ response = NoResponse
    /\ observed = <<>>
    /\ file = NoPatchFile
    /\ patchPreview = NotRendered
    /\ request = NoRequest
    /\ reader = NoReader

Init == InitWith(RecentHistories)

\* the readings Date.now() and new Date() can give: the millisecond of the
\* last reading, or the next one (only whether two readings are equal
\* matters); the clock is followed up to MaxClock
ClockReadings == {clock} \cup (IF clock < MaxClock THEN {clock + 1} ELSE {})

\* app.post('/api/changelogs'), the handler up to its return
Submit(body, t) ==
    /\ ~MicrotaskPending
    /\ Len(tasks) < MaxJobs
    /\ t \in ClockReadings
    /\ IF body.parsed
       THEN /\ clock' = t
            /\ changelogJobs' = InsertJob(JobIdOf(t))
            /\ tasks' = Append(tasks, StartTask(JobIdOf(t), body))
            /\ response' = [op |-> "submit", status |-> 200,
                            body |-> [id |-> JobIdOf(t)]]
       ELSE /\ t = clock
            /\ response' = [op |-> "submit", status |-> 500,
                            body |-> [error |-> "Failed to start changelog generation"]]
            /\ UNCHANGED <<changelogJobs, tasks, clock>>
    /\ UNCHANGED <<store, history, observed, file, patchPreview,
                   request, reader>>

\* the rejection of fetchCommitsInDateRange reaches the catch block
RunMicrotask(i) ==
    /\ tasks[i].pc = "rejected"
    /\ CatchBlock(i)
    /\ UNCHANGED <<history, response, observed, file, patchPreview,
                   request, reader>>

\* (variant: a job with no commit ends in error without calling the
\* Summarizer)
ListCommitsReturnsNonEmpty(i) ==
    /\ ~MicrotaskPending
    /\ tasks[i].pc = "listCommits"
    /\ LET commits == CommitSummaries(
                         ListCommitsData(ToISOString(DateParse(tasks[i].startDate)),
                                         ToISOString(DateParse(tasks[i].endDate))))
       IN IF commits = <<>>
          THEN CatchBlock(i)
          ELSE /\ tasks' = [tasks EXCEPT ![i].commits = commits,
                                         ![i].pending = 1..Len(commits),
                                         ![i].pc = "getCommit"]
               /\ UNCHANGED <<changelogJobs, store, clock>>
    /\ response' = NoResponse
    /\ UNCHANGED <<history, observed, file, patchPreview, request, reader>>

\* listCommits resolves: fetchCommitsInDateRange returns the summaries and
\* generateChangelogFromCommits issues one getCommit per commit (Promise.all);
\* with no commit Promise.all resolves at once and the Summarizer is called
ListCommitsReturns(i) ==
    /\ ~MicrotaskPending
    /\ tasks[i].pc = "listCommits"
    /\ LET commits == CommitSummaries(
                         ListCommitsData(ToISOString(DateParse(tasks[i].startDate)),
                                         ToISOString(DateParse(tasks[i].endDate))))
       IN tasks' = [tasks EXCEPT ![i].commits = commits,
                                 ![i].pending = 1..Len(commits),
                                 ![i].pc = IF commits = <<>> THEN "summarize"
                                           ELSE "getCommit"]
    /\ response' = NoResponse
    /\ UNCHANGED <<changelogJobs, store, clock, history, observed, file,
                   patchPreview,
                   request, reader>>

ListCommitsFails(i) ==
    /\ ~MicrotaskPending
    /\ tasks[i].pc = "listCommits"
    /\ CatchBlock(i)
    /\ response' = NoResponse
    /\ UNCHANGED <<history, observed, file, patchPreview,
                   request, reader>>

\* (variant: the Summarizer is called as soon as one getCommit has resolved)
GetCommitReturnsFirst(i, k) ==
    /\ ~MicrotaskPending
    /\ tasks[i].pc = "getCommit"
    /\ k \in tasks[i].pending
    /\ tasks' = [tasks EXCEPT ![i].pending = @ \ {k},
                              ![i].pc = "summarize"]
    /\ response' = NoResponse
    /\ UNCHANGED <<changelogJobs, store, clock, history, observed, file,
                   patchPreview, request, reader>>

\* one getCommit resolves; when it was the last one the prompt is built and
\* the Summarizer is called
GetCommitReturns(i, k) ==
    /\ ~MicrotaskPending
    /\ tasks[i].pc = "getCommit"
    /\ k \in tasks[i].pending
    /\ tasks' = [tasks EXCEPT ![i].pending = @ \ {k},
                              ![i].pc = IF tasks[i].pending = {k}
                                        THEN "summarize" ELSE @]
    /\ response' = NoResponse
    /\ UNCHANGED <<changelogJobs, store, clock, history, observed, file,
                   patchPreview,
                   request, reader>>

\* one getCommit rejects: Promise.all rejects and the catch block runs
GetCommitFails(i, k) ==
    /\ ~MicrotaskPending
    /\ tasks[i].pc = "getCommit"
    /\ k \in tasks[i].pending
    /\ CatchBlock(i)
    /\ response' = NoResponse
    /\ UNCHANGED <<history, observed, file, patchPreview,
                   request, reader>>

\* the completion arrives: JSON.parse, then storeChangelog up to await addDoc
SummarizerReturns(i, content) ==
    /\ ~MicrotaskPending
    /\ tasks[i].pc = "summarize"
    /\ IF \/ JSONParseThrows(content)
          \/ StoreChangelogThrows(JSONParse(content), tasks[i].commits)
       THEN CatchBlock(i)
       ELSE /\ tasks' = [tasks EXCEPT
                  ![i].pc = "addDoc",
                  ![i].changelog = JSONParse(content),
                  ![i].mostRecentCommit =
                      tasks[i].commits[MostRecentCommit(tasks[i].commits)],
                  ![i].changelogData =
                      ChangelogData(JSONParse(content), tasks[i].commits,
                                    tasks[i].version, tasks[i].title,
                                    tasks[i].startDate, tasks[i].endDate)]
            /\ UNCHANGED <<changelogJobs, store, clock>>
    /\ response' = NoResponse
    /\ UNCHANGED <<history, observed, file, patchPreview,
                   request, reader>>

SummarizerFails(i) ==
    /\ ~MicrotaskPending
    /\ tasks[i].pc = "summarize"
    /\ CatchBlock(i)
    /\ response' = NoResponse
    /\ UNCHANGED <<history, observed, file, patchPreview,
                   request, reader>>

\* addDoc resolves: storeChangelog returns docRef.id and the job is
\* completed; new Date() (line 201) reads the wall clock anew
AddDocReturns(i, t) ==
    /\ ~MicrotaskPending
    /\ tasks[i].pc = "addDoc"
    /\ t \in ClockReadings
    /\ clock' = t
    /\ LET changelogId == DocId(Len(store) + 1)
       IN /\ store' = AddDoc(tasks[i].changelogData, changelogId)
          /\ changelogJobs' =
                MapSet(changelogJobs, tasks[i].jobId,
                       CompletedJob(changelogId, t, tasks[i].version,
                                    tasks[i].title, tasks[i].changelog.changes))
    /\ tasks' = [tasks EXCEPT ![i] = Finished(@)]
    /\ response' = NoResponse
    /\ UNCHANGED <<history, observed, file, patchPreview,
                   request, reader>>

AddDocFails(i) ==
    /\ ~MicrotaskPending
    /\ tasks[i].pc = "addDoc"
    /\ CatchBlock(i)
    /\ response' = NoResponse
    /\ UNCHANGED <<history, observed, file, patchPreview,
                   request, reader>>

\* ------------------------------------------- GET /api/changelogs/status/:id
\* the ids a client may ask for: those it was given, and one it was not given
\* (the id of a later millisecond, which a later submit may or may not take)
JobIds == DOMAIN changelogJobs \cup {JobIdOf(clock + 1)}

\* (variant: an unknown id is answered like a job in progress)
StatusResponseDefault(jobId) ==
    [op |-> "getStatus", id |-> jobId, status |-> 200,
     body |-> IF jobId \in DOMAIN changelogJobs THEN changelogJobs[jobId]
              ELSE ProcessingJob]

\* changelogJobs.get(jobId), then 404 or the entry
StatusResponse(jobId) ==
    IF jobId \notin DOMAIN changelogJobs
    THEN [op |-> "getStatus", id |-> jobId, status |-> 404,
          body |-> [error |-> "Job not found"]]
    ELSE [op |-> "getStatus", id |-> jobId, status |-> 200,
          body |-> changelogJobs[jobId]]

GetStatus(jobId) ==
    /\ ~MicrotaskPending
    /\ response' = StatusResponse(jobId)
    /\ observed' = IF /\ jobId \in DOMAIN changelogJobs
                      /\ IsTerminal(changelogJobs[jobId])
                      /\ jobId \notin DOMAIN observed
                   THEN MapSet(observed, jobId, changelogJobs[jobId])
                   ELSE observed
    /\ UNCHANGED <<changelogJobs, tasks, store, clock, history, file, patchPreview,
                   request, reader>>

Next ==
    \/ \E body \in Bodies, t \in ClockReadings : Submit(body, t)
    \/ \E i \in DOMAIN tasks : RunMicrotask(i)
    \/ \E i \in DOMAIN tasks : ListCommitsReturns(i)
    \/ \E i \in DOMAIN tasks : ListCommitsFails(i)
    \/ \E i \in DOMAIN tasks, k \in 1..MaxCommits : GetCommitReturns(i, k)
    \/ \E i \in DOMAIN tasks, k \in 1..MaxCommits : GetCommitFails(i, k)
    \/ \E i \in DOMAIN tasks, content \in Completions : SummarizerReturns(i, content)
    \/ \E i \in DOMAIN tasks : SummarizerFails(i)
    \/ \E i \in DOMAIN tasks, t \in ClockReadings : AddDocReturns(i, t)
    \/ \E i \in DOMAIN tasks : AddDocFails(i)
    \/ \E jobId \in JobIds : GetStatus(jobId)

Spec == Init /\ [][Next]_vars

\* ------------------------------------------------- the jobs under fairness
\* Every collaborator call eventually returns or fails, and a pending
\* microtask runs: each task keeps taking its next step.  Status requests
\* read the table only and are left out.
TaskStep(i) ==
    /\ i \in DOMAIN tasks
    /\ \/ RunMicrotask(i)
       \/ ListCommitsReturns(i)
       \/ ListCommitsFails(i)
       \/ \E k \in 1..MaxCommits : GetCommitReturns(i, k)
       \/ \E k \in 1..MaxCommits : GetCommitFails(i, k)
       \/ \E content \in Completions : SummarizerReturns(i, content)
       \/ SummarizerFails(i)
       \/ \E t \in ClockReadings : AddDocReturns(i, t)
       \/ AddDocFails(i)

NextJobs ==
    \/ \E body \in Bodies, t \in ClockReadings : Submit(body, t)
    \/ \E i \in DOMAIN tasks : RunMicrotask(i)
    \/ \E i \in DOMAIN tasks : ListCommitsReturns(i)
    \/ \E i \in DOMAIN tasks : ListCommitsFails(i)
    \/ \E i \in DOMAIN tasks, k \in 1..MaxCommits : GetCommitReturns(i, k)
    \/ \E i \in DOMAIN tasks, k \in 1..MaxCommits : GetCommitFails(i, k)
    \/ \E i \in DOMAIN tasks, content \in Completions : SummarizerReturns(i, content)
    \/ \E i \in DOMAIN tasks : SummarizerFails(i)
    \/ \E i \in DOMAIN tasks, t \in ClockReadings : AddDocReturns(i, t)
    \/ \E i \in DOMAIN tasks : AddDocFails(i)

FairSpec ==
    /\ Init
    /\ [][NextJobs]_vars
    /\ \A i \in 1..MaxJobs : WF_vars(TaskStep(i))

\* ---------------------------------------------- one job, any commit history
\* The pipeline of a single job over every history of at most MaxCommits
\* commits, whatever the order of their dates.
NextSingle ==
    \/ \E body \in Bodies, t \in ClockReadings : tasks = <<>> /\ Submit(body, t)
    \/ \E i \in DOMAIN tasks : RunMicrotask(i)
    \/ \E i \in DOMAIN tasks : ListCommitsReturns(i)
    \/ \E i \in DOMAIN tasks : ListCommitsFails(i)
    \/ \E i \in DOMAIN tasks, k \in 1..MaxCommits : GetCommitReturns(i, k)
    \/ \E i \in DOMAIN tasks, k \in 1..MaxCommits : GetCommitFails(i, k)
    \/ \E i \in DOMAIN tasks, content \in AllCompletions : SummarizerReturns(i, content)
    \/ \E i \in DOMAIN tasks : SummarizerFails(i)
    \/ \E i \in DOMAIN tasks, t \in ClockReadings : AddDocReturns(i, t)
    \/ \E i \in DOMAIN tasks : AddDocFails(i)
    \/ \E jobId \in JobIds : GetStatus(jobId)

AssemblerSpec == InitWith(Histories) /\ [][NextSingle]_vars

\* ------------------------------------------------------ the patch preview
\* generateChangelogFromCommits renders the preview of each file of each
\* commit detail into the prompt (lines 76-87); the preview is a function of
\* the file alone.
InitPreview ==
    /\ changelogJobs = <<>>
    /\ tasks = <<>>
    /\ store = <<>>
    /\ clock = 0
    /\ history = <<>>
    /\ response = NoResponse
    /\ observed = <<>>
    /\ file \in Files
    /\ patchPreview = NotRendered
    /\ request = NoRequest
    /\ reader = NoReader

RenderPreview ==
    /\ ~patchPreview.done
    /\ patchPreview' = [done |-> TRUE, text |-> PatchPreview(file)]
    /\ UNCHANGED <<changelogJobs, tasks, store, clock, history, response,
                   observed, file,
                   request, reader>>

NextPreview == RenderPreview

PreviewSpec == InitPreview /\ [][NextPreview]_vars


\* -------------------------------------------------------- GET /api/commits
\* Bounds of the requests: the largest page and pageSize a client asks for
\* and the largest 'last' page the Commit Source reports.
MaxPage == 2
MaxPageSize == 3
MaxLastPage == 6

\* the decimal literals of the model
IntLiterals == (0 - 1)..(MaxPage + MaxPageSize + MaxLastPage)

NotANumber == [nan |-> TRUE, n |-> 0]

\* parseInt(s): the integer a decimal literal denotes, NaN for undefined and
\* for text that does not start with a number
ParseInt(s) ==
    IF \E n \in IntLiterals : ToString(n) = s
    THEN [nan |-> FALSE, n |-> CHOOSE n \in IntLiterals : ToString(n) = s]
    ELSE NotANumber

\* parseInt(..) || d: NaN and 0 are falsy
OrDefault(parsed, d) == IF parsed.nan \/ parsed.n = 0 THEN d ELSE parsed.n

DefaultPage == 0
DefaultPageSize == 10
DefaultTotalCommits == 1

\* the Link header of the probe (per_page: 1, page: 1): absent when there is
\* one page only, else it names the next and the last page
LinkUrl == "<https://api.github.com/repositories/1/commits?per_page=1&page="

LinkNextLast(n) ==
    LinkUrl \o "2>; rel=\"next\", " \o LinkUrl \o ToString(n) \o ">; rel=\"last\""

\* a Link header without a 'last' link
LinkPrevFirst ==
    LinkUrl \o "1>; rel=\"prev\", " \o LinkUrl \o "1>; rel=\"first\""

LinkHeaders ==
    {Undefined, LinkPrevFirst} \cup {LinkNextLast(n) : n \in 2..MaxLastPage}

\* headers['link']?.match(/page=(\d+)>; rel="last"/)?.[1]
MatchLastPage(link) ==
    IF \E n \in IntLiterals : n >= 0 /\ link = LinkNextLast(n)
    THEN ToString(CHOOSE n \in IntLiterals : n >= 0 /\ link = LinkNextLast(n))
    ELSE Undefined

\* parseInt(..match..) || 1
TotalCommits(link) == OrDefault(ParseInt(MatchLastPage(link)), DefaultTotalCommits)

\* (variant: the quotient is rounded down)
FloorDiv(a, b) == IF b > 0 THEN a \div b ELSE (0 - a) \div (0 - b)

\* Math.ceil(a / b), b # 0
CeilDiv(a, b) ==
    IF b > 0 THEN 0 - ((0 - a) \div b) ELSE 0 - (a \div (0 - b))

\* req.query of GET /api/commits
CommitQueries ==
    [page : {Undefined, "abc", "-1"} \cup {ToString(n) : n \in 0..MaxPage},
     pageSize : {Undefined, "-1"} \cup {ToString(n) : n \in 0..MaxPageSize},
     startDate : {Undefined, "2024-01-01", "soon"},
     endDate : {Undefined, "2024-01-05"}]

\* response.data of the second listCommits call
PageData == {<<>>, <<ApiCommit(1, "2024-01-05T00:00:00Z")>>}

CommitLink(sha) == "https://github.com/owner/repo/commit/" \o sha

\* response.data.map(commit => ({sha, message, author, date, link}))
CommitItems(data) ==
    [k \in 1..Len(data) |->
        [sha |-> data[k].sha,
         message |-> data[k].commit.message,
         author |-> data[k].commit.author.name,
         date |-> data[k].commit.author.date,
         link |-> CommitLink(data[k].sha)]]

\* startDate ? new Date(startDate).toISOString() : undefined throws
DateArgThrows(d) == Truthy(d) /\ ToISOStringThrows(DateParse(d))

CommitsFailed ==
    [op |-> "getCommits", status |-> 500,
     body |-> [error |-> "Failed to fetch commits"]]

\* a request has arrived, with what the Commit Source will answer to the
\* probe (link) and to the page call (data)
InitCommits ==
    /\ changelogJobs = <<>>
    /\ tasks = <<>>
    /\ store = <<>>
    /\ clock = 0
    /\ history = <<>>
    /\ response = NoResponse
    /\ observed = <<>>
    /\ file = NoPatchFile
    /\ patchPreview = NotRendered
    /\ reader = NoReader
    /\ \E query \in CommitQueries, link \in LinkHeaders, data \in PageData :
          request = [op |-> "getCommits", pc |-> "received", query |-> query,
                     link |-> link, data |-> data, page |-> 0, pageSize |-> 0,
                     totalCommits |-> 0]

\* the handler up to the first await (lines 244-257)
GetCommitsStarts ==
    /\ request.pc = "received"
    /\ IF DateArgThrows(request.query.startDate)
          \/ DateArgThrows(request.query.endDate)
       THEN /\ request' = [request EXCEPT !.pc = "done"]
            /\ response' = CommitsFailed
       ELSE /\ request' =
                [request EXCEPT
                   !.pc = "probe",
                   !.page = OrDefault(ParseInt(request.query.page), DefaultPage),
                   !.pageSize = OrDefault(ParseInt(request.query.pageSize),
                                          DefaultPageSize)]
            /\ response' = NoResponse
    /\ UNCHANGED <<changelogJobs, tasks, store, clock, history, observed, file,
                   patchPreview, reader>>

\* the probe resolves (lines 260-270)
ProbeReturns ==
    /\ request.pc = "probe"
    /\ request' = [request EXCEPT !.pc = "page",
                                  !.totalCommits = TotalCommits(request.link)]
    /\ response' = NoResponse
    /\ UNCHANGED <<changelogJobs, tasks, store, clock, history, observed, file,
                   patchPreview, reader>>

\* the page call resolves (lines 272-287)
PageReturns ==
    /\ request.pc = "page"
    /\ LET totalPages == CeilDiv(request.totalCommits, request.pageSize)
           currentItemCount == (request.page + 1) * request.pageSize
       IN response' =
             [op |-> "getCommits", status |-> 200,
              body |-> [items |-> CommitItems(request.data),
                        totalPages |-> totalPages,
                        hasMore |-> currentItemCount < request.totalCommits]]
    /\ request' = [request EXCEPT !.pc = "done"]
    /\ UNCHANGED <<changelogJobs, tasks, store, clock, history, observed, file,
                   patchPreview, reader>>

\* either listCommits call rejects (lines 288-291)
ListCommitsRejects ==
    /\ request.pc \in {"probe", "page"}
    /\ request' = [request EXCEPT !.pc = "done"]
    /\ response' = CommitsFailed
    /\ UNCHANGED <<changelogJobs, tasks, store, clock, history, observed, file,
                   patchPreview, reader>>

NextCommits ==
    \/ GetCommitsStarts
    \/ ProbeReturns
    \/ PageReturns
    \/ ListCommitsRejects

CommitsSpec == InitCommits /\ [][NextCommits]_vars


\* ------------------------------------------------------ GET /api/changelogs
\* The 'changelogs' collection is read through a Firestore query
\* (orderBy('startDate', 'desc'), startAfter(cursor), limit(pageSize)).
\* Firestore orders the values of a field by type first (a timestamp sorts
\* before every string) and by value within a type, and breaks ties of the
\* ordered field by document id in the direction of the order.
MaxRecords == 3

\* the startDate of a record is the string POST /api/changelogs was given
\* (line 164); new Date(lastTimestamp) is sent as a timestamp (line 305)
StringValue(s) == [type |-> "string", rank |-> DateParse(s)]

TimestampValue(ms) == [type |-> "timestamp", rank |-> ms]

TypeRank(type) == IF type = "timestamp" THEN 1 ELSE 2

\* a sorts before b in Firestore's order of values
ValueLess(a, b) ==
    \/ TypeRank(a.type) < TypeRank(b.type)
    \/ TypeRank(a.type) = TypeRank(b.type) /\ a.rank < b.rank

\* the k-th record added to a collection has the k-th smallest id
StoredRecord(k, startDate) ==
    [id |-> DocId(k),
     data |-> ChangelogData(JSONParse(DraftEmpty),
                            CommitSummaries(<<ApiCommit(1, "2024-01-05T00:00:00Z")>>),
                            Undefined, Undefined, startDate, "2024-01-05")]

\* every collection of at most MaxRecords records
Stores ==
    UNION {{[k \in 1..n |-> StoredRecord(k, d[k])]
              : d \in [1..n -> {"2024-01-01", "2024-01-05"}]}
           : n \in 0..MaxRecords}

\* record j comes before record k in orderBy('startDate', 'desc')
QueryPrecedes(docs, j, k) ==
    \/ ValueLess(StringValue(docs[k].data.startDate),
                 StringValue(docs[j].data.startDate))
    \/ /\ docs[j].data.startDate = docs[k].data.startDate
       /\ j > k

\* the records of the collection in the order of the query
OrderByStartDateDesc(docs) ==
    [p \in 1..Len(docs) |->
        docs[CHOOSE k \in 1..Len(docs) :
                Cardinality({j \in 1..Len(docs) : QueryPrecedes(docs, j, k)})
                   = p - 1]]

\* startAfter(cursor): the records whose startDate sorts strictly after the
\* cursor in descending order
StartAfter(docs, cursor) ==
    SelectSeq(docs, LAMBDA doc : ValueLess(StringValue(doc.data.startDate), cursor))

\* limit(n)
Limit(docs, n) == SubSeq(docs, 1, IF n < Len(docs) THEN n ELSE Len(docs))

\* {id: doc.id, ...doc.data()}
ChangelogItem(doc) == [id |-> doc.id] @@ doc.data

ChangelogsDefaultPageSize == 10

\* the response body of lines 316-334 to req.query = {pageSize, lastTimestamp}
ChangelogsPage(query) ==
    LET pageSize == OrDefault(ParseInt(query.pageSize), ChangelogsDefaultPageSize)
        ordered == OrderByStartDateDesc(store)
        docs == IF Truthy(query.lastTimestamp)
                THEN StartAfter(ordered,
                                TimestampValue(DateParse(query.lastTimestamp)))
                ELSE ordered
        page == Limit(docs, pageSize)
        changelogs == [k \in 1..Len(page) |-> ChangelogItem(page[k])]
    IN [items |-> changelogs,
        hasMore |-> Len(changelogs) = pageSize,
        lastTimestamp |-> IF Len(changelogs) > 0
                          THEN changelogs[Len(changelogs)].startDate
                          ELSE Null]

\* a client starts reading a collection from its first page
InitChangelogs ==
    /\ changelogJobs = <<>>
    /\ tasks = <<>>
    /\ store \in Stores
    /\ clock = 0
    /\ history = <<>>
    /\ response = NoResponse
    /\ observed = <<>>
    /\ file = NoPatchFile
    /\ patchPreview = NotRendered
    /\ request = NoRequest
    /\ \E pageSize \in {Undefined} \cup {ToString(n) : n \in 1..MaxRecords} :
          reader = [reading |-> TRUE, pc |-> "idle", pageSize |-> pageSize,
                    lastTimestamp |-> Undefined, items |-> <<>>,
                    done |-> FALSE]

\* the client asks for the next page with the cursor of the last response:
\* the handler builds the query and awaits getDocs (lines 297-316); nothing
\* is answered in this turn
GetChangelogsStarts ==
    /\ reader.reading
    /\ reader.pc = "idle"
    /\ ~reader.done
    /\ reader' = [reader EXCEPT !.pc = "getDocs"]
    /\ response' = NoResponse
    /\ UNCHANGED <<changelogJobs, tasks, store, clock, history, observed, file,
                   patchPreview, request>>

\* getDocs resolves with the snapshot of the query over the collection as
\* it is by then, and the page is answered (lines 317-334)
GetDocsReturns ==
    /\ reader.reading
    /\ reader.pc = "getDocs"
    /\ LET body == ChangelogsPage([pageSize |-> reader.pageSize,
                                   lastTimestamp |-> reader.lastTimestamp])
       IN /\ response' = [op |-> "getChangelogs", status |-> 200, body |-> body]
          /\ reader' = [reader EXCEPT !.pc = "idle",
                                      !.items = @ \o body.items,
                                      !.lastTimestamp = body.lastTimestamp,
                                      !.done = ~body.hasMore]
    /\ UNCHANGED <<changelogJobs, tasks, store, clock, history, observed, file,
                   patchPreview, request>>

\* getDocs rejects (lines 335-338); the client may ask again
GetDocsFails ==
    /\ reader.reading
    /\ reader.pc = "getDocs"
    /\ response' = [op |-> "getChangelogs", status |-> 500,
                    body |-> [error |-> "Failed to fetch changelogs"]]
    /\ reader' = [reader EXCEPT !.pc = "idle"]
    /\ UNCHANGED <<changelogJobs, tasks, store, clock, history, observed, file,
                   patchPreview, request>>

NextChangelogs ==
    \/ GetChangelogsStarts
    \/ GetDocsReturns
    \/ GetDocsFails

ChangelogsSpec == InitChangelogs /\ [][NextChangelogs]_vars


\* ======================================================================
\* Properties
\* ======================================================================

\* the ids submit has returned so far
SubmittedIds == {tasks[i].jobId : i \in DOMAIN tasks}

\* C1: every submit allocates a job id different from the id of every other
\* job submitted in the same run, also within one millisecond and while
\* earlier jobs are still processing.
C1_JobIdsUnique ==
    \A i, j \in DOMAIN tasks : i # j => tasks[i].jobId # tasks[j].jobId

\* C2: the status of a job table entry changes exactly once after creation:
\* an entry that is completed or error keeps that status for ever.
C2_TerminalStatusIsFinal ==
    [][\A id \in DOMAIN changelogJobs :
          changelogJobs[id].status \in {"completed", "error"}
             => changelogJobs'[id].status = changelogJobs[id].status]_vars

\* new Date(startDate) and new Date(endDate) are valid dates
ParseableDates(body) ==
    DateParse(body.startDate) # NaN /\ DateParse(body.endDate) # NaN

\* C3 (as claimed): submit inserts {processing, completed: false} before it
\* returns and before the background task has finished, and a getStatus for
\* the returned id served right after the submit finds status processing
\* and completed false.
C3_StatusRightAfterSubmit ==
    [][/\ \A body \in Bodies, t \in ClockReadings :
            (body.parsed /\ Submit(body, t))
               => /\ JobIdOf(t) \in DOMAIN changelogJobs'
                  /\ changelogJobs'[JobIdOf(t)].status = "processing"
                  /\ changelogJobs'[JobIdOf(t)].completed = FALSE
                  /\ tasks'[Len(tasks')].pc # "done"
       /\ \A id \in JobIds :
            (/\ response.op = "submit"
             /\ response.status = 200
             /\ response.body.id = id
             /\ GetStatus(id))
               => /\ response'.status = 200
                  /\ response'.body.status = "processing"
                  /\ response'.body.completed = FALSE]_vars

\* C3 (amended): the same for a submit whose startDate and endDate are
\* parseable: no continuation of the job runs before the next request is
\* served, the job awaits the Commit Source, and a getStatus served right
\* after the submit finds status processing and completed false.
C3_StatusRightAfterValidSubmit ==
    [][/\ \A body \in Bodies, t \in ClockReadings :
            (body.parsed /\ Submit(body, t))
               => /\ JobIdOf(t) \in DOMAIN changelogJobs'
                  /\ changelogJobs'[JobIdOf(t)].status = "processing"
                  /\ changelogJobs'[JobIdOf(t)].completed = FALSE
                  /\ tasks'[Len(tasks')].pc # "done"
                  /\ ParseableDates(body)
                        => /\ ~MicrotaskPending'
                           /\ tasks'[Len(tasks')].pc = "listCommits"
       /\ \A id \in JobIds :
            (/\ response.op = "submit"
             /\ response.status = 200
             /\ response.body.id = id
             /\ tasks[Len(tasks)].pc = "listCommits"
             /\ GetStatus(id))
               => /\ response'.status = 200
                  /\ response'.body.status = "processing"
                  /\ response'.body.completed = FALSE]_vars

\* C3 witness: a submit with parseable dates has just returned; its entry is
\* in the table and its task awaits the Commit Source.
C3_Witness ==
    /\ response.op = "submit"
    /\ response.status = 200
    /\ ~MicrotaskPending
    /\ tasks[Len(tasks)].pc = "listCommits"
    /\ tasks[Len(tasks)].jobId = response.body.id
    /\ changelogJobs[response.body.id].status = "processing"

\* C4: once getStatus(id) has returned a terminal record, every later
\* getStatus(id) returns the same record.
C4_TerminalReadsAreStable ==
    [][\A id \in DOMAIN observed :
          GetStatus(id) => response'.body = observed[id]]_vars

\* C5: getStatus for an id that submit never returned answers 404 with
\* error 'Job not found', and getStatus never changes the job table.
C5_UnknownIdNotFound ==
    [][\A id \in JobIds :
          GetStatus(id)
             => /\ changelogJobs' = changelogJobs
                /\ id \notin SubmittedIds
                      => /\ response'.status = 404
                         /\ response'.body = [error |-> "Job not found"]]_vars

\* C5 witness: with a job in the table, a status request for another id has
\* been answered 404.
C5_Witness ==
    /\ response.op = "getStatus"
    /\ response.status = 404
    /\ response.id \notin SubmittedIds
    /\ changelogJobs # <<>>

\* a step in which task i fails: it ends and the store is as before
TaskFails(i) ==
    /\ tasks[i].pc # "done"
    /\ tasks'[i].pc = "done"
    /\ store' = store

\* a step in which task i succeeds: it ends and the store has one more record
TaskSucceeds(i) ==
    /\ tasks[i].pc # "done"
    /\ tasks'[i].pc = "done"
    /\ Len(store') = Len(store) + 1

\* C6: whichever step of a job fails, the step writes exactly
\* {status: 'error', completed: true, error: 'Failed to generate changelog'}
\* to the job's entry, with no changelog field.
C6_FailureIsCoalesced ==
    [][\A i \in DOMAIN tasks :
          TaskFails(i)
             => /\ changelogJobs'[tasks[i].jobId]
                      = [status |-> "error", completed |-> TRUE,
                         error |-> "Failed to generate changelog"]
                /\ "changelog" \notin DOMAIN changelogJobs'[tasks[i].jobId]]_vars

\* C6 witness: a job whose Summarizer or store step failed (it had fetched
\* its commits) and a job that failed before any commit was fetched both
\* ended with the error record.
C6_Witness ==
    /\ Len(tasks) = 2
    /\ tasks[1].pc = "done"
    /\ tasks[2].pc = "done"
    /\ tasks[1].jobId # tasks[2].jobId
    /\ store = <<>>
    /\ changelogJobs[tasks[1].jobId].status = "error"
    /\ changelogJobs[tasks[2].jobId].status = "error"

\* no task is running and every entry of the job table is terminal
AllJobsTerminal ==
    /\ \A i \in DOMAIN tasks : tasks[i].pc = "done"
    /\ \A id \in DOMAIN changelogJobs :
          changelogJobs[id].status \in {"completed", "error"}

\* C7: every dispatched job eventually reaches a terminal status, given that
\* every collaborator call eventually returns or fails: again and again the
\* run reaches a state in which every task dispatched so far has ended and
\* every entry is completed or error (so each job, once dispatched, reaches
\* its terminal status).  No step cancels or abandons a job: a task stays in
\* the list with its job id, and it ends only in a step that leaves its
\* entry completed or error.
C7_EveryJobTerminates ==
    /\ []<>AllJobsTerminal
    /\ [][\A i \in DOMAIN tasks :
            /\ i \in DOMAIN tasks'
            /\ tasks'[i].jobId = tasks[i].jobId
            /\ (tasks[i].pc # "done" /\ tasks'[i].pc = "done")
                  => changelogJobs'[tasks[i].jobId].status
                        \in {"completed", "error"}]_vars

\* C7 witness: two jobs with different ids have ended, one completed and one
\* in error.
C7_Witness ==
    /\ Len(tasks) = 2
    /\ tasks[1].pc = "done"
    /\ tasks[2].pc = "done"
    /\ tasks[1].jobId # tasks[2].jobId
    /\ changelogJobs[tasks[1].jobId].status = "completed"
    /\ changelogJobs[tasks[2].jobId].status = "error"

\* C8: when the three steps of a job succeed, its entry becomes
\* {status: 'completed', completed: true} with a changelog carrying the id
\* the store gave to the record this job persisted, the version and title
\* given to submit and the sections of this job's Summarizer draft.
C8_SuccessCarriesOwnRecord ==
    [][\A i \in DOMAIN tasks :
          TaskSucceeds(i)
             => LET job == changelogJobs'[tasks[i].jobId]
                    record == store'[Len(store')]
                IN /\ job.status = "completed"
                   /\ job.completed = TRUE
                   /\ DOMAIN job = {"status", "completed", "changelog"}
                   /\ record.data = tasks[i].changelogData
                   /\ job.changelog.id = record.id
                   /\ \A k \in 1..Len(store) : store[k].id # record.id
                   /\ job.changelog.version = tasks[i].version
                   /\ job.changelog.title = tasks[i].title
                   /\ job.changelog.changes = tasks[i].changelog.changes]_vars

\* C8 witness: two jobs submitted with different version and title have both
\* completed, each entry carrying the id of its own record.
C8_Witness ==
    /\ Len(store) = 2
    /\ store[1].data.version # store[2].data.version
    /\ Len(tasks) = 2
    /\ tasks[1].jobId # tasks[2].jobId
    /\ changelogJobs[tasks[1].jobId].status = "completed"
    /\ changelogJobs[tasks[2].jobId].status = "completed"
    /\ changelogJobs[tasks[1].jobId].changelog.id
          # changelogJobs[tasks[2].jobId].changelog.id
    /\ changelogJobs[tasks[1].jobId].changelog.title
          # changelogJobs[tasks[2].jobId].changelog.title

\* C9: for a non-empty commit set the persisted timestampOfMostRecentCommit
\* is the maximum date among the job's commits, and among several commits
\* with the maximum date the first in iteration order is the one selected.
C9_MostRecentCommit ==
    [][\A i \in DOMAIN tasks :
          TaskSucceeds(i)
             => LET commits == tasks[i].commits
                    selected == tasks[i].mostRecentCommit
                    timestamp ==
                       store'[Len(store')].data.timestampOfMostRecentCommit
                IN /\ commits # <<>>
                   /\ timestamp = selected.date
                   /\ \A k \in 1..Len(commits) :
                         DateParse(commits[k].date) <= DateParse(timestamp)
                   /\ \E k \in 1..Len(commits) :
                         /\ commits[k] = selected
                         /\ \A j \in 1..(k - 1) :
                               DateParse(commits[j].date)
                                  < DateParse(selected.date)]_vars

\* C9 witness: a record was persisted for a job over two commits of the same
\* date.
C9_Witness ==
    /\ Len(history) = 2
    /\ history[1].commit.author.date = history[2].commit.author.date
    /\ Len(store) = 1
    /\ store[1].data.startDate = "2024-01-01"
    /\ store[1].data.endDate = "2024-01-05"
    /\ store[1].data.timestampOfMostRecentCommit = history[1].commit.author.date

\* the positions of the line breaks of a string
LineBreaks(str) == {k \in 1..Len(str) : str[k] = LF}

\* the number of lines of a patch: 0 for no patch or an empty one
PatchLineCount(f) ==
    IF f.hasPatch /\ f.patch # <<>>
    THEN Cardinality(LineBreaks(f.patch)) + 1 ELSE 0

\* C10: for a patch of N lines the preview holds exactly the first min(N,5)
\* lines of the patch, in order, followed by an ellipsis line iff N > 5; a
\* file with no patch gives an empty preview.
C10_PatchPreview ==
    patchPreview.done
       => LET n == PatchLineCount(file)
              text == patchPreview.text
          IN IF n = 0 THEN text = <<>>
             ELSE IF n <= 5
             THEN /\ text = file.patch
                  /\ Cardinality(LineBreaks(text)) + 1 = n
             ELSE LET cut == CHOOSE k \in LineBreaks(file.patch) :
                                Cardinality({j \in LineBreaks(file.patch) : j <= k}) = 5
                  IN /\ text = SubSeq(file.patch, 1, cut - 1) \o <<LF, ".", ".", ".">>
                     /\ Cardinality(LineBreaks(text)) + 1 = 6

\* C10 witness: the preview of a patch of more than five lines was rendered.
C10_Witness ==
    /\ patchPreview.done
    /\ PatchLineCount(file) > 5
    /\ Len(patchPreview.text) >= 4

\* C11: the sections of the persisted record mirror the Summarizer draft one
\* to one: as many sections in the same order, each with heading = category
\* and as many items in the same order, each item with bulletPointDetails =
\* description and linkToRelevantCommit = commitLink and no other field;
\* an empty list of sections is persisted as an empty list.
C11_SectionsMirrorDraft ==
    [][\A i \in DOMAIN tasks :
          TaskSucceeds(i)
             => LET changes == tasks[i].changelog.changes
                    sections == store'[Len(store')].data.sections
                IN /\ Len(sections) = Len(changes)
                   /\ \A k \in 1..Len(changes) :
                        /\ DOMAIN sections[k] = {"heading", "bulletPoints"}
                        /\ sections[k].heading = changes[k].category
                        /\ Len(sections[k].bulletPoints) = Len(changes[k].items)
                        /\ \A j \in 1..Len(changes[k].items) :
                             LET point == sections[k].bulletPoints[j]
                                 item == changes[k].items[j]
                             IN /\ DOMAIN point = {"bulletPointDetails",
                                                   "linkToRelevantCommit"}
                                /\ point.bulletPointDetails = item.description
                                /\ point.linkToRelevantCommit = item.commitLink]_vars

\* C11 witness: a record was persisted from a draft of two sections, the
\* first with no item and the second with two different items.
C11_Witness ==
    /\ Len(store) = 1
    /\ Len(store[1].data.sections) = 2
    /\ store[1].data.sections[1].bulletPoints = <<>>
    /\ Len(store[1].data.sections[2].bulletPoints) = 2
    /\ store[1].data.sections[2].bulletPoints[1]
          # store[1].data.sections[2].bulletPoints[2]
    /\ changelogJobs[tasks[1].jobId].changelog.changes[2].category
          = store[1].data.sections[2].heading

\* C12: GET /api/commits, for every page >= 0 and pageSize > 0 asked for:
\* hasMore is true iff (page+1)*pageSize < totalCommits, and totalPages is
\* ceil(totalCommits / pageSize), where totalCommits is the number of the
\* 'last' page of the probe's Link header; when the probe has no 'last'
\* link, totalCommits is 1, so totalPages is 1 and hasMore is false.
C12_CommitsPagination ==
    (response.op = "getCommits" /\ response.status = 200)
       => \A page \in 0..MaxPage, pageSize \in 1..MaxPageSize :
             (/\ request.query.page = ToString(page)
              /\ request.query.pageSize = ToString(pageSize))
                => LET hasLast == \E n \in 2..MaxLastPage :
                                     request.link = LinkNextLast(n)
                       totalCommits ==
                          IF hasLast
                          THEN CHOOSE n \in 2..MaxLastPage :
                                  request.link = LinkNextLast(n)
                          ELSE 1
                       body == response.body
                   IN /\ request.totalCommits = totalCommits
                      /\ body.hasMore = ((page + 1) * pageSize < totalCommits)
                      /\ (body.totalPages - 1) * pageSize < totalCommits
                      /\ totalCommits <= body.totalPages * pageSize
                      /\ ~hasLast => (body.totalPages = 1 /\ ~body.hasMore)

\* C12 witness: a page after the first was answered with more pages to come,
\* of a total that is not a multiple of the page size.
C12_Witness ==
    /\ response.op = "getCommits"
    /\ response.status = 200
    /\ request.query.page = "1"
    /\ request.query.pageSize = "2"
    /\ request.link = LinkNextLast(5)
    /\ response.body.hasMore
    /\ response.body.totalPages = 3

\* C13: each job table entry is written by at most one background task: no
\* two background tasks perform a terminal write (completed or error) to the
\* same job id.  A task that has ended has performed its terminal write.
C13_SingleWriterPerJob ==
    \A i, j \in DOMAIN tasks :
       (i # j /\ tasks[i].pc = "done" /\ tasks[j].pc = "done")
          => tasks[i].jobId # tasks[j].jobId

\* the collaborator calls of task i that have been issued and have neither
\* returned nor failed
OutstandingCalls(i) ==
    Cardinality(tasks[i].pending)
       + (IF tasks[i].pc \in {"listCommits", "summarize", "addDoc"} THEN 1 ELSE 0)

\* C14 (as claimed): within one job at most one call to the Commit Source,
\* the Summarizer or the Store is outstanding at any moment, including the
\* per-commit detail fetches of a job with two or more commits.
C14_OneCallOutstanding ==
    \A i \in DOMAIN tasks : OutstandingCalls(i) <= 1

\* C14 (amended): while a job runs, its calls to list the commits, to the
\* Summarizer and to the Store are outstanding one at a time and never
\* together with a detail fetch; the per-commit detail fetches are issued
\* together, so up to one per commit is outstanding at once, and the
\* Summarizer is called only when every one of them has returned.
C14_StepsSequentialFetchesConcurrent ==
    \A i \in DOMAIN tasks :
       tasks[i].pc # "done"
          => /\ tasks[i].pc \in {"listCommits", "summarize", "addDoc"}
                   => (OutstandingCalls(i) = 1 /\ tasks[i].pending = {})
             /\ tasks[i].pc = "getCommit"
                   => /\ 1 <= OutstandingCalls(i)
                      /\ OutstandingCalls(i) <= Len(tasks[i].commits)
                      /\ tasks[i].pending \subseteq 1..Len(tasks[i].commits)
             /\ tasks[i].pc = "rejected" => OutstandingCalls(i) = 0

\* C14 witness: a job over two commits has both detail fetches outstanding,
\* and another job awaits its Summarizer call with no fetch outstanding.
C14_Witness ==
    \E i, j \in DOMAIN tasks :
       /\ tasks[i].pc = "getCommit"
       /\ Len(tasks[i].commits) = 2
       /\ OutstandingCalls(i) = 2
       /\ tasks[j].pc = "summarize"
       /\ Len(tasks[j].commits) = 2
       /\ OutstandingCalls(j) = 1

\* the calls a job may issue when the call it awaits has returned: the
\* detail fetches or (with no commit) the Summarizer after the list of
\* commits, the Summarizer after the last detail fetch, the Store after the
\* Summarizer
StepsAfter(pc) ==
    CASE pc = "listCommits" -> {"getCommit", "summarize"}
      [] pc = "getCommit" -> {"summarize"}
      [] pc = "summarize" -> {"addDoc"}
      [] OTHER -> {}

\* C15: a job runs its steps at most once each and in the order
\* list-commits, summarize, persist: a step starts only when the previous
\* one has succeeded (the summarize step from a listed commit set, the
\* persist step from a parsed draft), a failure ends the job in error with
\* no further step, and a job that has ended is never re-run or retried:
\* only a submit starts a task.
C15_StepsOnceInOrder ==
    [][/\ \A i \in DOMAIN tasks :
            /\ i \in DOMAIN tasks'
            /\ \/ tasks'[i] = tasks[i]
               \/ /\ tasks[i].pc = "getCommit"
                  /\ tasks'[i].pc = "getCommit"
                  /\ tasks'[i].pending \subseteq tasks[i].pending
                  /\ tasks'[i].pending # tasks[i].pending
               \/ /\ tasks'[i].pc \in StepsAfter(tasks[i].pc)
                  /\ tasks'[i].jobId = tasks[i].jobId
                  /\ UNCHANGED <<store, changelogJobs>>
               \/ /\ tasks[i].pc # "done"
                  /\ tasks'[i].pc = "done"
                  /\ \/ /\ tasks[i].pc = "addDoc"
                        /\ Len(store') = Len(store) + 1
                        /\ changelogJobs'[tasks[i].jobId].status = "completed"
                     \/ /\ store' = store
                        /\ changelogJobs'[tasks[i].jobId].status = "error"
            /\ tasks[i].pc = "done" => tasks'[i] = tasks[i]
       /\ Len(tasks') # Len(tasks)
             => /\ Len(tasks') = Len(tasks) + 1
                /\ response'.op = "submit"
                /\ tasks'[Len(tasks')].pc \in {"listCommits", "rejected"}
       /\ store' # store
             => \E i \in DOMAIN tasks :
                   /\ tasks[i].pc = "addDoc"
                   /\ tasks'[i].pc = "done"
                   /\ \A j \in DOMAIN tasks \ {i} : tasks'[j] = tasks[j]]_vars

\* C15 witness: one job ran its three steps and completed with its record,
\* another failed after its commits were listed; both have ended, the store
\* holds the one record and a status request has been served since.
C15_Witness ==
    /\ Len(tasks) = 2
    /\ tasks[1].pc = "done"
    /\ tasks[2].pc = "done"
    /\ tasks[1].jobId # tasks[2].jobId
    /\ Len(store) = 1
    /\ changelogJobs[tasks[2].jobId].status = "completed"
    /\ changelogJobs[tasks[2].jobId].changelog.id = store[1].id
    /\ changelogJobs[tasks[1].jobId].status = "error"
    /\ response.op = "getStatus"
    /\ response.id = tasks[1].jobId
    /\ response.body.status = "error"

\* startDate and endDate are valid dates and startDate is after endDate
ReversedRange(startDate, endDate) ==
    /\ DateParse(startDate) # NaN
    /\ DateParse(endDate) # NaN
    /\ DateParse(startDate) > DateParse(endDate)

\* the requests whose startDate is after their endDate
ReversedBodies ==
    {body \in Bodies :
        body.parsed /\ ReversedRange(body.startDate, body.endDate)}

\* C16: submit does not check startDate <= endDate: a request whose
\* startDate is after its endDate is answered 200 with a job id, its entry
\* is processing and its task awaits the Commit Source when the response is
\* sent; the job ends only in a later background step, and when it fails
\* the failure is the error status of its entry, not the answer to submit.
C16_ReversedRangeAccepted ==
    [][/\ \A body \in ReversedBodies, t \in ClockReadings :
            Submit(body, t)
               => /\ response'.op = "submit"
                  /\ response'.status = 200
                  /\ response'.body = [id |-> JobIdOf(t)]
                  /\ changelogJobs'[JobIdOf(t)]
                        = [status |-> "processing", completed |-> FALSE]
                  /\ tasks'[Len(tasks')].jobId = JobIdOf(t)
                  /\ tasks'[Len(tasks')].pc = "listCommits"
                  /\ ~MicrotaskPending'
       /\ \A i \in DOMAIN tasks :
            (/\ ReversedRange(tasks[i].startDate, tasks[i].endDate)
             /\ tasks[i].pc # "done"
             /\ tasks'[i].pc = "done")
               => /\ response'.op # "submit"
                  /\ store' = store
                        => changelogJobs'[tasks[i].jobId].status = "error"]_vars

\* C16 witness: a submit with startDate after endDate has just been answered
\* with a job id; the entry is processing and the task awaits the Commit
\* Source.
C16_Witness ==
    /\ response.op = "submit"
    /\ response.status = 200
    /\ tasks # <<>>
    /\ ReversedRange(tasks[Len(tasks)].startDate, tasks[Len(tasks)].endDate)
    /\ tasks[Len(tasks)].jobId = response.body.id
    /\ tasks[Len(tasks)].pc = "listCommits"
    /\ changelogJobs[response.body.id].status = "processing"
    /\ \A i \in DOMAIN tasks : tasks[i].pc # "done"

\* C17: a job id that is in the job table stays in the job table: no step
\* (submit, getStatus, a background completion or failure) removes an entry.
C17_EntriesAreKept ==
    [][DOMAIN changelogJobs \subseteq DOMAIN changelogJobs']_vars

\* C17 witness: two jobs with different ids have ended, one completed and
\* one failed, a status request has been served since, and both ids are in
\* the table.
C17_Witness ==
    /\ Cardinality(DOMAIN changelogJobs) = 2
    /\ \E a, b \in DOMAIN changelogJobs :
          /\ changelogJobs[a].status = "completed"
          /\ changelogJobs[b].status = "error"
    /\ \A i \in DOMAIN tasks : tasks[i].pc = "done"
    /\ response.op = "getStatus"
    /\ response.status = 200
    /\ SubmittedIds = DOMAIN changelogJobs

\* the entries of the job table with status completed
CompletedIds ==
    {id \in DOMAIN changelogJobs : changelogJobs[id].status = "completed"}

\* C18: in every reachable state a job is completed only if its background
\* task has appended exactly one record to the store (the record its entry
\* names), and a job in error or in processing has appended none: the store
\* holds one record for each completed job and no other record, so no
\* record is persisted behind an error status.
C18_RecordsMatchJobStatus ==
    /\ \A id \in CompletedIds :
          Cardinality({k \in DOMAIN store :
                          store[k].id = changelogJobs[id].changelog.id}) = 1
    /\ Len(store) = Cardinality(CompletedIds)

\* C19: when the Commit Source returns an empty commit set, the job still
\* calls the Summarizer (with no detail fetch); whatever the Summarizer
\* answers, the job then ends in error without a record being persisted (a
\* valid draft fails in storeChangelog, where the most recent commit of no
\* commits is null); a job with no commits never awaits the Store and never
\* completes.
C19_NoCommitsEndsInError ==
    [][\A i \in DOMAIN tasks :
          /\ (ListCommitsReturns(i) /\ tasks'[i].commits = <<>>)
                => /\ tasks'[i].pc = "summarize"
                   /\ tasks'[i].pending = {}
                   /\ UNCHANGED <<store, changelogJobs>>
          /\ (/\ tasks[i].pc = "summarize"
              /\ tasks[i].commits = <<>>
              /\ tasks'[i] # tasks[i])
                => /\ MostRecentCommit(tasks[i].commits) = 0
                   /\ tasks'[i].pc = "done"
                   /\ store' = store
                   /\ changelogJobs'[tasks[i].jobId]
                         = [status |-> "error", completed |-> TRUE,
                            error |-> "Failed to generate changelog"]
          /\ tasks'[i].pc = "addDoc" => tasks'[i].commits # <<>>
          /\ TaskSucceeds(i) => tasks[i].commits # <<>>]_vars

\* C19 witness: the repository has commits but none in the range asked for;
\* the job has received the empty commit set and awaits the Summarizer.
C19_Witness ==
    \E i \in DOMAIN tasks :
       /\ history # <<>>
       /\ tasks[i].pc = "summarize"
       /\ tasks[i].commits = <<>>
       /\ tasks[i].pending = {}
       /\ changelogJobs[tasks[i].jobId].status = "processing"
       /\ store = <<>>

\* C20: a client that reads GET /api/changelogs page after page, passing
\* each response's lastTimestamp as the next cursor until hasMore is false,
\* has received every stored record exactly once, in descending startDate
\* order, also when several records have the same startDate and when the
\* number of records is a multiple of pageSize.
C20_EveryRecordOnce ==
    (reader.reading /\ reader.done)
       => /\ \A k \in DOMAIN store :
                Cardinality({j \in DOMAIN reader.items :
                                reader.items[j].id = store[k].id}) = 1
          /\ Len(reader.items) = Len(store)
          /\ \A j, k \in DOMAIN reader.items :
                j < k => DateParse(reader.items[j].startDate)
                            >= DateParse(reader.items[k].startDate)

====
